---- MODULE Spec2Model ----
(***************************************************************************)
(* State-machine model of src/src/App.js: the useModelLoader hook, the     *)
(* wallet stub, the image verifier (detectFakeImage) and the news verifier *)
(* (verifyNews) of the React component App.                                *)
(*                                                                         *)
(* JavaScript values are encoded as follows.  null is the record Null, and  *)
(* a state that is a string or null holds Null or Str(s).                  *)
(* A string the code inspects character by character (walletId, newsText)  *)
(* is a sequence of one-character strings.  A string the code only builds  *)
(* and shows (a message) is a sequence of pieces, so that a template       *)
(* literal `prefix${x}` is <<prefix, x>> and "" is <<>>.                   *)
(* A model score is the exact rational num/den.                            *)
(***************************************************************************)
EXTENDS Integers, Sequences, FiniteSets

VARIABLES
    mounted,          \* the App component is mounted (state setters act)
    walletId,         \* useState("")        App.js:79
    account,          \* useState(null)      App.js:80
    verificationMode, \* useState("image")   App.js:81
    newsText,         \* useState("")        App.js:82
    image,            \* useState(null)      App.js:83
    loading,          \* useState(false)     App.js:84
    result,           \* useState(null)      App.js:85
    model,            \* useState(null)      App.js:5
    modelError,       \* useState(null)      App.js:6
    loaderPc,         \* position of loadModel (App.js:9-52)
    loadPromise,      \* state of modelLoadPromise (App.js:29)
    timer,            \* state of the setTimeout of timeoutPromise (App.js:33)
    timedOut,         \* the timeout won the race of App.js:36
    cleanupModel,     \* the `model` the effect cleanup closed over (App.js:56-60)
    disposed,         \* model.dispose() has been called (App.js:58)
    readers,          \* FileReaders still reading (App.js:146-148)
    attempts,         \* pending calls of detectFakeImage / verifyNews
    liveTensors,      \* tensors created by detectFakeImage and not disposed
    notice            \* text of the last alert() shown

vars == <<mounted, walletId, account, verificationMode, newsText, image,
          loading, result, model, modelError, loaderPc, loadPromise, timer,
          timedOut, cleanupModel, disposed, readers, attempts, liveTensors,
          notice>>

walletVars == <<walletId, account>>
loaderVars == <<model, modelError, loaderPc, loadPromise, timer, timedOut>>
verifyVars == <<loading, result, attempts, liveTensors>>

----------------------------------------------------------------------------
(* Bounds of the model and constants of the program *)

WordLimit == 150
MaxExtraWords == 1
MaxIdLen == 4
ScoreDen == 8
MaxReaders == 1
MaxInflight == 2
MaxLiveTensors == 3

Null == [null |-> TRUE]
Str(s) == [str |-> s]

----------------------------------------------------------------------------
(* String helpers: String.prototype.trim and split(/\s+/) *)

IsSpace(c) == c \in {" ", "\n", "\t"}

\* the number of whitespace characters at the start and at the end of s
LeadingSpaces(s) ==
    CHOOSE k \in 0 .. Len(s) :
        /\ \A j \in 1 .. k : IsSpace(s[j])
        /\ k = Len(s) \/ ~IsSpace(s[k + 1])

TrailingSpaces(s) ==
    CHOOSE k \in 0 .. Len(s) :
        /\ \A j \in 1 .. k : IsSpace(s[Len(s) + 1 - j])
        /\ k = Len(s) \/ ~IsSpace(s[Len(s) - k])

\* String.prototype.trim
Trim(s) ==
    IF LeadingSpaces(s) = Len(s) THEN <<>>
    ELSE SubSeq(s, LeadingSpaces(s) + 1, Len(s) - TrailingSpaces(s))

\* s.split(/\s+/) of the characters lo..hi of s: the pieces between maximal
\* runs of whitespace; a run at either end leaves an empty piece there, and
\* "" splits into [""].  The range is split in two halves whose pieces are
\* joined: the last piece of the left half continues in the first piece of
\* the right half, unless a run of whitespace spans the cut.
RECURSIVE SplitRange(_, _, _)
SplitRange(s, lo, hi) ==
    IF lo > hi THEN << <<>> >>
    ELSE IF lo = hi
         THEN IF IsSpace(s[lo]) THEN << <<>>, <<>> >> ELSE << <<s[lo]>> >>
    ELSE LET mid == (lo + hi) \div 2
             left == SplitRange(s, lo, mid)
             right == SplitRange(s, mid + 1, hi)
         IN  IF IsSpace(s[mid]) /\ IsSpace(s[mid + 1])
             THEN SubSeq(left, 1, Len(left) - 1) \o Tail(right)
             ELSE SubSeq(left, 1, Len(left) - 1)
                  \o << left[Len(left)] \o Head(right) >>
                  \o Tail(right)

SplitWhitespace(s) == SplitRange(s, 1, Len(s))

\* the count without the trim
getWordCountNoTrim(text) == Len(SplitWhitespace(text))

getWordCountOf(text) == Len(SplitWhitespace(Trim(text)))

getWordCount == getWordCountOf(newsText)

----------------------------------------------------------------------------
(* Inputs *)

RECURSIVE SeqsUpTo(_, _)
SeqsUpTo(S, n) ==
    IF n = 0 THEN {<<>>}
    ELSE LET shorter == SeqsUpTo(S, n - 1)
         IN  shorter \cup {Append(s, c) : s \in shorter, c \in S}

WalletIds == SeqsUpTo({" ", "a", "."}, MaxIdLen)

\* n words "a" with sep between neighbours
Words(n, sep) ==
    LET period == 1 + Len(sep)
        length == IF n = 0 THEN 0 ELSE n + (n - 1) * Len(sep)
    IN  [i \in 1 .. length |->
            IF (i - 1) % period = 0 THEN "a" ELSE sep[(i - 1) % period]]

\* A text of n words; the padded form has whitespace at both ends and
\* two-character separators.
MkText(n, padded) ==
    IF padded THEN <<" ">> \o Words(n, <<" ", "\n">>) \o <<"\t">>
    ELSE Words(n, <<" ">>)

WordCounts == {0, WordLimit} \cup (WordLimit + 1 .. WordLimit + MaxExtraWords)

\* what the user may paste into the text area
NewsTexts == {<<>>} \cup {MkText(n, TRUE) : n \in WordCounts}

\* e.target.files[0]: nothing, or a file with its MIME type and the data URL
\* a FileReader makes of it.
Files == { Null,
           [type |-> <<"image/", "png">>, url |-> "data:image/png;base64,A"],
           [type |-> <<"text/", "plain">>, url |-> "data:text/plain;base64,C"] }

Scores == {[num |-> n, den |-> ScoreDen] : n \in 0 .. ScoreDen}

\* Parsed bodies of a 2xx response of the summary endpoint.
Bodies == { [title |-> <<"T">>],
            [title |-> <<"T">>, extract |-> <<>>],
            [title |-> <<"T">>, extract |-> <<"X">>] }

StatusTexts == {<<"Not Found">>}

----------------------------------------------------------------------------
(* React state setters: a no-op once the component is unmounted *)

Set(cur, new) == IF mounted THEN new ELSE cur

Init ==
    /\ mounted = TRUE
    /\ walletId = <<>>
    /\ account = Null
    /\ verificationMode = "image"
    /\ newsText = <<>>
    /\ image = Null
    /\ loading = FALSE
    /\ result = Null
    /\ model = Null
    /\ modelError = Null
    /\ loaderPc = "setBackendWebgl"
    /\ loadPromise = "none"
    /\ timer = "none"
    /\ timedOut = FALSE
    /\ cleanupModel = Null
    /\ disposed = FALSE
    /\ readers = <<>>
    /\ attempts = <<>>
    /\ liveTensors = 0
    /\ notice = ""

----------------------------------------------------------------------------
(* useModelLoader: loadModel, App.js:9-52 *)

LoadedModel == [handle |-> "LayersModel"]

LoaderFail(msg) ==
    /\ modelError' = Set(modelError, Str(msg))
    /\ loaderPc' = "done"
    /\ model' = model

\* await tf.setBackend("webgl") resolves (App.js:11)
SetBackendWebglOk ==
    /\ loaderPc = "setBackendWebgl"
    /\ loaderPc' = "tfReady"
    /\ UNCHANGED <<model, modelError, loadPromise, timer, timedOut>>
    /\ UNCHANGED <<mounted, walletVars, verificationMode, newsText, image,
                   verifyVars, cleanupModel, disposed, readers, notice>>

\* await tf.setBackend("webgl") rejects (App.js:13-16)
SetBackendWebglFail ==
    /\ loaderPc = "setBackendWebgl"
    /\ loaderPc' = "setBackendWasm"
    /\ UNCHANGED <<model, modelError, loadPromise, timer, timedOut>>
    /\ UNCHANGED <<mounted, walletVars, verificationMode, newsText, image,
                   verifyVars, cleanupModel, disposed, readers, notice>>

\* await tf.setBackend("wasm") resolves (App.js:16-17)
SetBackendWasmOk ==
    /\ loaderPc = "setBackendWasm"
    /\ loaderPc' = "tfReady"
    /\ UNCHANGED <<model, modelError, loadPromise, timer, timedOut>>
    /\ UNCHANGED <<mounted, walletVars, verificationMode, newsText, image,
                   verifyVars, cleanupModel, disposed, readers, notice>>

\* await tf.setBackend("wasm") rejects (App.js:18-23)
SetBackendWasmFail ==
    /\ loaderPc = "setBackendWasm"
    /\ LoaderFail(<<"Failed to initialize TensorFlow backend">>)
    /\ UNCHANGED <<loadPromise, timer, timedOut>>
    /\ UNCHANGED <<mounted, walletVars, verificationMode, newsText, image,
                   verifyVars, cleanupModel, disposed, readers, notice>>

\* await tf.ready() resolves: the load and the 30 s timer start and the
\* function waits for their race (App.js:27-39)
TfReadyOk ==
    /\ loaderPc = "tfReady"
    /\ loaderPc' = "race"
    /\ loadPromise' = "pending"
    /\ timer' = "armed"
    /\ UNCHANGED <<model, modelError, timedOut>>
    /\ UNCHANGED <<mounted, walletVars, verificationMode, newsText, image,
                   verifyVars, cleanupModel, disposed, readers, notice>>

\* await tf.ready() rejects (App.js:27, 47-50)
TfReadyFail ==
    /\ loaderPc = "tfReady"
    /\ LoaderFail(<<"Failed to load model: ", "backend not ready">>)
    /\ UNCHANGED <<loadPromise, timer, timedOut>>
    /\ UNCHANGED <<mounted, walletVars, verificationMode, newsText, image,
                   verifyVars, cleanupModel, disposed, readers, notice>>

\* the race not consulted: a late load goes on to the warm-up
AfterLoadFulfilledNoRace(pc) == "warmup"

\* What loadModel does when modelLoadPromise fulfils at loaderPc pc: if the
\* race is still open it goes on to the warm-up inference (App.js:36-42),
\* otherwise the race is settled and the value is dropped.
AfterLoadFulfilled(pc) == IF pc = "race" THEN "warmup" ELSE pc

\* modelLoadPromise fulfils and loadedModel.predict(dummyInput) returns
ModelLoadFulfilled ==
    /\ loadPromise = "pending"
    /\ loadPromise' = "fulfilled"
    /\ loaderPc' = AfterLoadFulfilled(loaderPc)
    /\ UNCHANGED <<model, modelError, timer, timedOut>>
    /\ UNCHANGED <<mounted, walletVars, verificationMode, newsText, image,
                   verifyVars, cleanupModel, disposed, readers, notice>>

\* modelLoadPromise fulfils in the open race and the warm-up predict throws
\* (App.js:42, 47-50)
ModelLoadFulfilledPredictThrows ==
    /\ loadPromise = "pending"
    /\ loaderPc = "race"
    /\ loadPromise' = "fulfilled"
    /\ LoaderFail(<<"Failed to load model: ", "predict failed">>)
    /\ UNCHANGED <<timer, timedOut>>
    /\ UNCHANGED <<mounted, walletVars, verificationMode, newsText, image,
                   verifyVars, cleanupModel, disposed, readers, notice>>

\* modelLoadPromise rejects (App.js:36, 47-50); a settled race ignores it
ModelLoadRejected ==
    /\ loadPromise = "pending"
    /\ loadPromise' = "rejected"
    /\ IF loaderPc = "race"
       THEN LoaderFail(<<"Failed to load model: ", "load failed">>)
       ELSE UNCHANGED <<model, modelError, loaderPc>>
    /\ UNCHANGED <<timer, timedOut>>
    /\ UNCHANGED <<mounted, walletVars, verificationMode, newsText, image,
                   verifyVars, cleanupModel, disposed, readers, notice>>

\* the 30 s timer fires (App.js:32-34); it rejects the race if still open
TimeoutFires ==
    /\ timer = "armed"
    /\ timer' = "fired"
    /\ IF loaderPc = "race"
       THEN /\ LoaderFail(<<"Failed to load model: ", "Model loading timed out">>)
            /\ timedOut' = TRUE
       ELSE UNCHANGED <<model, modelError, loaderPc, timedOut>>
    /\ UNCHANGED loadPromise
    /\ UNCHANGED <<mounted, walletVars, verificationMode, newsText, image,
                   verifyVars, cleanupModel, disposed, readers, notice>>

\* the warm-up .data() resolves: the model is published (App.js:42-46)
WarmupOk ==
    /\ loaderPc = "warmup"
    /\ model' = Set(model, LoadedModel)
    /\ loaderPc' = "done"
    /\ UNCHANGED <<modelError, loadPromise, timer, timedOut>>
    /\ UNCHANGED <<mounted, walletVars, verificationMode, newsText, image,
                   verifyVars, cleanupModel, disposed, readers, notice>>

\* the warm-up .data() rejects (App.js:42, 47-50)
WarmupFail ==
    /\ loaderPc = "warmup"
    /\ LoaderFail(<<"Failed to load model: ", "data failed">>)
    /\ UNCHANGED <<loadPromise, timer, timedOut>>
    /\ UNCHANGED <<mounted, walletVars, verificationMode, newsText, image,
                   verifyVars, cleanupModel, disposed, readers, notice>>

\* the effect cleanup at unmount (App.js:56-60): `model` is the value the
\* effect closed over when it ran, after the first render
Unmount ==
    /\ mounted
    /\ mounted' = FALSE
    /\ disposed' = (disposed \/ cleanupModel # Null)
    /\ UNCHANGED <<walletVars, verificationMode, newsText, image, verifyVars,
                   loaderVars, cleanupModel, readers, notice>>

Loader ==
    \/ SetBackendWebglOk \/ SetBackendWebglFail
    \/ SetBackendWasmOk \/ SetBackendWasmFail
    \/ TfReadyOk \/ TfReadyFail
    \/ ModelLoadFulfilled \/ ModelLoadFulfilledPredictThrows
    \/ ModelLoadRejected \/ TimeoutFires
    \/ WarmupOk \/ WarmupFail

----------------------------------------------------------------------------
(* Wallet stub, App.js:90-103 and the buttons of App.js:272-309 *)

\* the handler storing the trimmed identifier
validateWalletTrimmed ==
    IF Trim(walletId) # <<>>
    THEN account' = [accountId |-> Trim(walletId)]
    ELSE account' = account

\* the handler validateWallet (App.js:90-94)
validateWallet ==
    IF Trim(walletId) # <<>>
    THEN account' = [accountId |-> walletId]
    ELSE account' = account

\* onChange of the wallet field, shown while there is no account (App.js:279)
EditWalletId(v) ==
    /\ mounted
    /\ account = Null
    /\ walletId' = v
    /\ UNCHANGED account
    /\ UNCHANGED <<mounted, verificationMode, newsText, image, verifyVars,
                   loaderVars, cleanupModel, disposed, readers, notice>>

\* click on Validate Wallet: shown without account, disabled on a blank id
\* (App.js:281-290)
ClickValidateWallet ==
    /\ mounted
    /\ account = Null
    /\ Trim(walletId) # <<>>
    /\ validateWallet
    /\ UNCHANGED walletId
    /\ UNCHANGED <<mounted, verificationMode, newsText, image, verifyVars,
                   loaderVars, cleanupModel, disposed, readers, notice>>

\* the handler signIn (App.js:96-98) only writes to the console
signIn == UNCHANGED <<walletId, account>>

\* click on Connect Wallet (App.js:291-300)
ClickConnectWallet ==
    /\ mounted
    /\ account = Null
    /\ Trim(walletId) # <<>>
    /\ signIn
    /\ UNCHANGED <<mounted, verificationMode, newsText, image, verifyVars,
                   loaderVars, cleanupModel, disposed, readers, notice>>

\* the handler signOut (App.js:100-103)
signOut ==
    /\ account' = Null
    /\ walletId' = <<>>

\* click on Disconnect, shown while there is an account (App.js:305-307)
ClickDisconnect ==
    /\ mounted
    /\ account # Null
    /\ signOut
    /\ UNCHANGED <<mounted, verificationMode, newsText, image, verifyVars,
                   loaderVars, cleanupModel, disposed, readers, notice>>

Wallet ==
    \/ \E v \in WalletIds : EditWalletId(v)
    \/ ClickValidateWallet
    \/ ClickConnectWallet
    \/ ClickDisconnect

----------------------------------------------------------------------------
(* Presentation layer: mode toggle, text area, file picker *)

\* click on Image Verification / News Verification (App.js:319, 329)
SetVerificationMode(m) ==
    /\ mounted
    /\ verificationMode' = m
    /\ UNCHANGED <<mounted, walletVars, newsText, image, verifyVars,
                   loaderVars, cleanupModel, disposed, readers, notice>>

\* onChange of the text area of the news panel (App.js:369-374)
EditNewsText(t) ==
    /\ mounted
    /\ verificationMode = "news"
    /\ newsText' = t
    /\ UNCHANGED <<mounted, walletVars, verificationMode, image, verifyVars,
                   loaderVars, cleanupModel, disposed, readers, notice>>

\* file.type.startsWith("image/") (App.js:145)
IsImageFile(file) == file # Null /\ Head(file.type) = "image/"

\* handleImageUpload (App.js:143-152), onChange of the file input of the
\* image panel
handleImageUpload(file) ==
    /\ mounted
    /\ verificationMode = "image"
    /\ IF IsImageFile(file)
       THEN /\ Len(readers) < MaxReaders
            /\ readers' = Append(readers, file.url)
            /\ UNCHANGED notice
       ELSE /\ notice' = "Please upload a valid image file."
            /\ UNCHANGED readers
    /\ UNCHANGED <<mounted, walletVars, verificationMode, newsText, image,
                   verifyVars, loaderVars, cleanupModel, disposed>>

Remove(seq, i) == SubSeq(seq, 1, i - 1) \o SubSeq(seq, i + 1, Len(seq))

\* reader.onload (App.js:147)
ReaderOnload(i) ==
    /\ i \in DOMAIN readers
    /\ image' = Set(image, Str(readers[i]))
    /\ readers' = Remove(readers, i)
    /\ UNCHANGED <<mounted, walletVars, verificationMode, newsText,
                   verifyVars, loaderVars, cleanupModel, disposed, notice>>

----------------------------------------------------------------------------
(* Image verifier: detectFakeImage, App.js:154-193 *)

\* exact arithmetic on scores num/den
OneMinus(s) == [num |-> s.den - s.num, den |-> s.den]
MathAbs(r) == [num |-> IF r.num < 0 THEN 0 - r.num ELSE r.num, den |-> r.den]
Times(r, k) == [num |-> r.num * k, den |-> r.den]
\* Math.round: the nearest integer, a tie going up
MathRound(r) == (2 * r.num + r.den) \div (2 * r.den)
LessThanHalf(s) == 2 * s.num < s.den

\* the threshold taken inclusive
ImageResultInclusive(s) ==
    [isAuthentic |-> 2 * s.num <= s.den,
     confidence |-> MathRound(Times(MathAbs(OneMinus(s)), 100))]

\* the result of App.js:179-182 for resultValue[0] = s
ImageResult(s) ==
    [isAuthentic |-> LessThanHalf(s),
     confidence |-> MathRound(Times(MathAbs(OneMinus(s)), 100))]

\* the end of an attempt: the result is set and `finally` clears loading
Finish(i, res) ==
    /\ result' = Set(result, res)
    /\ loading' = Set(loading, FALSE)
    /\ attempts' = Remove(attempts, i)

\* a catch that keeps the previous result
CatchImageSilent(i, msg) ==
    /\ result' = result
    /\ loading' = Set(loading, FALSE)
    /\ attempts' = Remove(attempts, i)

\* catch of detectFakeImage (App.js:183-192)
CatchImage(i, msg) ==
    Finish(i, [isAuthentic |-> FALSE, confidence |-> 0, error |-> msg])

\* a button that is never disabled
VerifyImageNeverDisabled == FALSE

\* disabled= of the Verify Image button (App.js:360)
VerifyImageDisabled == loading

\* the Verify Image button is shown, in the image panel once an image is
\* set, and is not disabled (App.js:335, 350-363)
CanClickVerifyImage ==
    /\ mounted
    /\ verificationMode = "image"
    /\ image # Null
    /\ ~VerifyImageDisabled

\* click on Verify Image, running detectFakeImage up to its first await
ClickVerifyImage ==
    /\ CanClickVerifyImage
    /\ IF image = Null \/ model = Null
       THEN /\ notice' = "Please upload an image and ensure the model is loaded."
            /\ UNCHANGED verifyVars
       ELSE /\ Len(attempts) < MaxInflight
            /\ liveTensors + 2 <= MaxLiveTensors
            /\ loading' = TRUE
            /\ attempts' = Append(attempts, [kind |-> "image", pc |-> "decode"])
            /\ UNCHANGED <<result, liveTensors, notice>>
    /\ UNCHANGED <<mounted, walletVars, verificationMode, newsText, image,
                   loaderVars, cleanupModel, disposed, readers>>

IsAt(i, kind, pc) ==
    /\ i \in DOMAIN attempts
    /\ attempts[i].kind = kind
    /\ attempts[i].pc = pc

\* img.onerror (App.js:168-169)
ImgDecodeError(i) ==
    /\ IsAt(i, "image", "decode")
    /\ CatchImage(i, <<"Failed to load image: ", "[object Event]">>)
    /\ UNCHANGED <<liveTensors, notice>>
    /\ UNCHANGED <<mounted, walletVars, verificationMode, newsText, image,
                   loaderVars, cleanupModel, disposed, readers>>

\* img.onload, then preprocessImage throws inside tf.tidy, which releases
\* what it made (App.js:172, 66-76)
ImgPreprocessError(i) ==
    /\ IsAt(i, "image", "decode")
    /\ CatchImage(i, <<"fromPixels failed">>)
    /\ UNCHANGED <<liveTensors, notice>>
    /\ UNCHANGED <<mounted, walletVars, verificationMode, newsText, image,
                   loaderVars, cleanupModel, disposed, readers>>

\* img.onload, preprocessImage returns its tensor, model.predict throws
\* (App.js:172-173)
ImgPredictError(i) ==
    /\ IsAt(i, "image", "decode")
    /\ liveTensors' = liveTensors + 1
    /\ CatchImage(i, <<"predict failed">>)
    /\ UNCHANGED notice
    /\ UNCHANGED <<mounted, walletVars, verificationMode, newsText, image,
                   loaderVars, cleanupModel, disposed, readers>>

\* img.onload, preprocessImage and model.predict return their tensors and
\* predictions.data() is awaited (App.js:172-174)
ImgPredictOk(i) ==
    /\ IsAt(i, "image", "decode")
    /\ liveTensors' = liveTensors + 2
    /\ attempts' = [attempts EXCEPT ![i].pc = "data"]
    /\ UNCHANGED <<loading, result, notice>>
    /\ UNCHANGED <<mounted, walletVars, verificationMode, newsText, image,
                   loaderVars, cleanupModel, disposed, readers>>

\* predictions.data() rejects (App.js:174)
ImgDataError(i) ==
    /\ IsAt(i, "image", "data")
    /\ CatchImage(i, <<"data failed">>)
    /\ UNCHANGED <<liveTensors, notice>>
    /\ UNCHANGED <<mounted, walletVars, verificationMode, newsText, image,
                   loaderVars, cleanupModel, disposed, readers>>

\* predictions.data() resolves with the score s: both tensors are disposed
\* and the verdict is published (App.js:174-182)
ImgDataOk(i, s) ==
    /\ IsAt(i, "image", "data")
    /\ liveTensors' = liveTensors - 2
    /\ Finish(i, ImageResult(s))
    /\ UNCHANGED notice
    /\ UNCHANGED <<mounted, walletVars, verificationMode, newsText, image,
                   loaderVars, cleanupModel, disposed, readers>>

----------------------------------------------------------------------------
(* News verifier: verifyNews, App.js:105-140 *)

\* catch of verifyNews (App.js:130-136)
FailedNews(msg) ==
    [isAuthentic |-> FALSE,
     realNews |-> <<"Verification failed: ">> \o msg,
     confidence |-> 0]

\* a catch with no finally after it
CatchNewsNoFinally(i, msg) ==
    /\ result' = Set(result, FailedNews(msg))
    /\ loading' = loading
    /\ attempts' = Remove(attempts, i)

CatchNews(i, msg) == Finish(i, FailedNews(msg))

\* presence of the field taken for truthiness
HasExtractField(data) == "extract" \in DOMAIN data

\* JavaScript truthiness of data.extract
HasExtract(data) == "extract" \in DOMAIN data /\ data.extract # <<>>

\* the result of App.js:125-129
NewsResult(data) ==
    [isAuthentic |-> HasExtract(data),
     realNews |-> IF HasExtract(data) THEN data.extract
                  ELSE <<"Not found in Wikipedia.">>,
     confidence |-> IF HasExtract(data) THEN 80 ELSE 50]

\* disabled= of the Verify News button (App.js:382)
VerifyNewsDisabled == loading \/ getWordCount > WordLimit

\* the Verify News button is shown, in the news panel, and is not disabled
\* (App.js:335, 367-385)
CanClickVerifyNews ==
    /\ mounted
    /\ verificationMode = "news"
    /\ ~VerifyNewsDisabled

\* click on Verify News, running verifyNews up to its first await
ClickVerifyNews ==
    /\ CanClickVerifyNews
    /\ IF getWordCount > WordLimit
       THEN /\ result' = FailedNews(<<"News content exceeds the 150-word limit.">>)
            /\ loading' = FALSE
            /\ UNCHANGED attempts
       ELSE /\ Len(attempts) < MaxInflight
            /\ loading' = TRUE
            /\ attempts' = Append(attempts, [kind |-> "news", pc |-> "fetch"])
            /\ UNCHANGED result
    /\ UNCHANGED <<liveTensors, notice>>
    /\ UNCHANGED <<mounted, walletVars, verificationMode, newsText, image,
                   loaderVars, cleanupModel, disposed, readers>>

\* fetch rejects (App.js:114)
FetchNetworkError(i) ==
    /\ IsAt(i, "news", "fetch")
    /\ CatchNews(i, <<"Failed to fetch">>)
    /\ UNCHANGED <<liveTensors, notice>>
    /\ UNCHANGED <<mounted, walletVars, verificationMode, newsText, image,
                   loaderVars, cleanupModel, disposed, readers>>

\* fetch resolves with a response that is not ok (App.js:120-122)
FetchNotOk(i, statusText) ==
    /\ IsAt(i, "news", "fetch")
    /\ CatchNews(i, <<"Wikipedia API error: ">> \o statusText)
    /\ UNCHANGED <<liveTensors, notice>>
    /\ UNCHANGED <<mounted, walletVars, verificationMode, newsText, image,
                   loaderVars, cleanupModel, disposed, readers>>

\* fetch resolves with an ok response; response.json() is awaited (App.js:124)
FetchOk(i) ==
    /\ IsAt(i, "news", "fetch")
    /\ attempts' = [attempts EXCEPT ![i].pc = "json"]
    /\ UNCHANGED <<loading, result, liveTensors, notice>>
    /\ UNCHANGED <<mounted, walletVars, verificationMode, newsText, image,
                   loaderVars, cleanupModel, disposed, readers>>

\* response.json() rejects: the body is not JSON (App.js:124)
JsonReject(i) ==
    /\ IsAt(i, "news", "json")
    /\ CatchNews(i, <<"Unexpected token < in JSON at position 0">>)
    /\ UNCHANGED <<liveTensors, notice>>
    /\ UNCHANGED <<mounted, walletVars, verificationMode, newsText, image,
                   loaderVars, cleanupModel, disposed, readers>>

\* response.json() resolves with null: data.extract throws (App.js:126)
JsonNull(i) ==
    /\ IsAt(i, "news", "json")
    /\ CatchNews(i, <<"Cannot read properties of null (reading 'extract')">>)
    /\ UNCHANGED <<liveTensors, notice>>
    /\ UNCHANGED <<mounted, walletVars, verificationMode, newsText, image,
                   loaderVars, cleanupModel, disposed, readers>>

\* response.json() resolves with the object data (App.js:124-129)
JsonOk(i, data) ==
    /\ IsAt(i, "news", "json")
    /\ Finish(i, NewsResult(data))
    /\ UNCHANGED <<liveTensors, notice>>
    /\ UNCHANGED <<mounted, walletVars, verificationMode, newsText, image,
                   loaderVars, cleanupModel, disposed, readers>>

----------------------------------------------------------------------------
(* Specifications *)

Indices == 1 .. MaxInflight

\* the settling of a pending asynchronous operation of an attempt
Settle ==
    \/ \E i \in Indices : ImgDecodeError(i)
    \/ \E i \in Indices : ImgPreprocessError(i)
    \/ \E i \in Indices : ImgPredictError(i)
    \/ \E i \in Indices : ImgPredictOk(i)
    \/ \E i \in Indices : ImgDataError(i)
    \/ \E i \in Indices, s \in Scores : ImgDataOk(i, s)
    \/ \E i \in Indices : FetchNetworkError(i)
    \/ \E i \in Indices, st \in StatusTexts : FetchNotOk(i, st)
    \/ \E i \in Indices : FetchOk(i)
    \/ \E i \in Indices : JsonReject(i)
    \/ \E i \in Indices : JsonNull(i)
    \/ \E i \in Indices, data \in Bodies : JsonOk(i, data)

User ==
    \/ \E m \in {"image", "news"} : SetVerificationMode(m)
    \/ \E t \in NewsTexts : EditNewsText(t)
    \/ \E f \in Files : handleImageUpload(f)
    \/ ClickVerifyImage
    \/ ClickVerifyNews

Next ==
    \/ Loader
    \/ Unmount
    \/ User
    \/ \E i \in 1 .. MaxReaders : ReaderOnload(i)
    \/ Settle

\* the whole page but for the wallet stub, whose state no other part reads
Spec == Init /\ [][Next]_vars

\* the same, every pending asynchronous operation settling eventually
FairSpec == Spec /\ WF_vars(Settle)

\* the wallet stub alone
WalletSpec == Init /\ [][Wallet]_vars

----------------------------------------------------------------------------
(* Properties *)

ImageAlert == "Please upload an image and ensure the model is loaded."

\* a published result that is negative, has confidence 0 and carries text
IsZeroNegative(r) ==
    /\ r # Null
    /\ r.isAuthentic = FALSE
    /\ r.confidence = 0
    /\ \/ "error" \in DOMAIN r /\ r.error # <<>>
       \/ "realNews" \in DOMAIN r /\ r.realNews # <<>>

\* C1: when an inference returns the score s = num/den in [0,1], the
\* published result has isAuthentic true exactly if s < 1/2, and its
\* confidence is the integer nearest to |1 - s| * 100, a tie going up.
C1_ScoreVerdict ==
    [][\A i \in Indices, s \in Scores :
          (mounted /\ ImgDataOk(i, s)) =>
              LET d == IF s.den >= s.num THEN s.den - s.num ELSE s.num - s.den
                  c == result'.confidence
              IN  /\ DOMAIN result' = {"isAuthentic", "confidence"}
                  /\ result'.isAuthentic = (2 * s.num < s.den)
                  /\ c \in 0 .. 100
                  /\ 200 * d - s.den < 2 * c * s.den
                  /\ 2 * c * s.den <= 200 * d + s.den]_vars

\* the score 1/2 has been published: not authentic, confidence 50
C1_Witness ==
    /\ result # Null
    /\ DOMAIN result = {"isAuthentic", "confidence"}
    /\ result.isAuthentic = FALSE
    /\ result.confidence = 50

\* C2 as stated: every 2xx body with an extract field, whatever its value X,
\* yields {isAuthentic: true, confidence: 80, realNews: X}.
C2_AnyExtractAuthentic ==
    [][\A i \in Indices, data \in Bodies :
          (mounted /\ JsonOk(i, data) /\ "extract" \in DOMAIN data) =>
              result' = [isAuthentic |-> TRUE, realNews |-> data.extract,
                         confidence |-> 80]]_vars

\* C2 amended: a 2xx response whose body is an object with a non-empty
\* extract X yields {true, 80, X}; one whose body is an object with no
\* extract or an empty one yields {false, 50, "Not found in Wikipedia."};
\* a non-2xx response, a network failure and a body that is not a JSON
\* object yield {false, 0, "Verification failed: ..."}.
C2_NewsOutcomes ==
    [][\A i \in Indices :
          mounted =>
            /\ \A data \in Bodies :
                  JsonOk(i, data) =>
                    IF "extract" \in DOMAIN data /\ Len(data.extract) > 0
                    THEN result' = [isAuthentic |-> TRUE,
                                    realNews |-> data.extract,
                                    confidence |-> 80]
                    ELSE result' = [isAuthentic |-> FALSE,
                                    realNews |-> <<"Not found in Wikipedia.">>,
                                    confidence |-> 50]
            /\ ( \/ FetchNetworkError(i)
                 \/ \E st \in StatusTexts : FetchNotOk(i, st)
                 \/ JsonReject(i)
                 \/ JsonNull(i) ) =>
                    /\ DOMAIN result' = {"isAuthentic", "realNews", "confidence"}
                    /\ result'.isAuthentic = FALSE
                    /\ result'.confidence = 0
                    /\ Len(result'.realNews) > 1
                    /\ Head(result'.realNews) = "Verification failed: "]_vars

\* a 2xx body without a usable extract has been answered "Not found in Wikipedia."
C2_Witness ==
    /\ result # Null
    /\ "realNews" \in DOMAIN result
    /\ result.confidence = 50
    /\ result.realNews = <<"Not found in Wikipedia.">>

\* C3 as stated: a click on Verify Image while the model handle is null (or
\* no image is set) publishes a negative result with confidence 0.
C3_AlertPublishesResult ==
    [][(ClickVerifyImage /\ (image = Null \/ model = Null)) =>
          IsZeroNegative(result')]_vars

\* C3 amended: a click on Verify Image with no image or with the model
\* handle null shows an alert and leaves result and loading as they were; an
\* image that fails to decode publishes {isAuthentic: false, confidence: 0,
\* error: message}; and an attempt starts only by a click on a verify button.
C3_ImageErrors ==
    [][/\ (ClickVerifyImage /\ (image = Null \/ model = Null)) =>
            /\ notice' = ImageAlert
            /\ UNCHANGED <<result, loading, attempts, liveTensors>>
       /\ \A i \in Indices :
            (mounted /\ ImgDecodeError(i)) =>
                /\ IsZeroNegative(result')
                /\ "error" \in DOMAIN result'
                /\ Head(result'.error) = "Failed to load image: "
       /\ Len(attempts') > Len(attempts) =>
            (ClickVerifyImage \/ ClickVerifyNews)]_vars

\* the alert has been shown and, later, an image has failed to decode
C3_Witness ==
    /\ notice = ImageAlert
    /\ result # Null
    /\ "error" \in DOMAIN result
    /\ Head(result.error) = "Failed to load image: "

\* C4: once the timeout has won the race, the model handle is null and the
\* loader is finished in every later state, also after the discarded load
\* completes; the error is set (while mounted); no image attempt is pending
\* and a click on Verify Image changes neither result, loading, the pending
\* attempts nor the tensors.
C4_TimeoutIsTerminal ==
    [][/\ timedOut' =>
            /\ model' = Null
            /\ loaderPc' = "done"
            /\ timer' = "fired"
            /\ mounted' => modelError' =
                   Str(<<"Failed to load model: ", "Model loading timed out">>)
            /\ \A i \in DOMAIN attempts' : attempts'[i].kind # "image"
       /\ (timedOut /\ ClickVerifyImage) =>
            UNCHANGED <<result, loading, attempts, liveTensors>>]_vars

\* the load has completed after the timeout and Verify Image was clicked
C4_Witness ==
    /\ timedOut
    /\ loadPromise = "fulfilled"
    /\ image # Null
    /\ notice = ImageAlert

\* C5: once the component is unmounted with a model loaded and published,
\* dispose has been called on the model.
C5_DisposedOnUnmount == (~mounted /\ model # Null) => disposed

\* C6: when no verification attempt is pending, every tensor made by the
\* attempts so far has been disposed.
C6_NoTensorLeak == attempts = <<>> => liveTensors = 0

\* the number of whitespace-delimited tokens of s
TokenCount(s) ==
    Cardinality({i \in 1 .. Len(s) :
                    ~IsSpace(s[i]) /\ (i = 1 \/ IsSpace(s[i - 1]))})

\* C7 as stated: with the news panel shown, the Verify News button is
\* enabled exactly if the text has at most 150 tokens.
C7_EnabledIffWithinLimit ==
    (mounted /\ verificationMode = "news") =>
        (CanClickVerifyNews <=> TokenCount(newsText) <= WordLimit)

\* C7 amended: a click on Verify News is possible exactly if the news panel
\* is shown, no verification is pending (loading is false) and the text has
\* at most 150 tokens; 151 tokens disable it.
C7_WordCountGuard ==
    CanClickVerifyNews <=>
        /\ mounted
        /\ verificationMode = "news"
        /\ ~loading
        /\ TokenCount(newsText) <= WordLimit

\* a text of 151 tokens with whitespace around it is in the text area
C7_Witness ==
    /\ mounted
    /\ verificationMode = "news"
    /\ ~loading
    /\ TokenCount(newsText) = WordLimit + 1
    /\ IsSpace(Head(newsText))

\* C8: an account appears only by Validate Wallet on an identifier that is
\* not blank, with accountId the identifier as entered; Connect Wallet
\* leaves the account as it is; Disconnect removes it.
C8_WalletValidation ==
    [][/\ (account' # account /\ account' # Null) =>
            /\ ClickValidateWallet
            /\ \E k \in 1 .. Len(walletId) : ~IsSpace(walletId[k])
            /\ account' = [accountId |-> walletId]
       /\ ClickConnectWallet => account' = account
       /\ ClickDisconnect => account' = Null]_vars

\* an identifier with whitespace around it has become the account
C8_Witness ==
    /\ account # Null
    /\ account.accountId = <<" ", "a", " ">>

\* a step in which the attempt i fails
FailStep(i) ==
    \/ ImgDecodeError(i)
    \/ ImgPreprocessError(i)
    \/ ImgPredictError(i)
    \/ ImgDataError(i)
    \/ FetchNetworkError(i)
    \/ \E st \in StatusTexts : FetchNotOk(i, st)
    \/ JsonReject(i)
    \/ JsonNull(i)

\* C9: a failing attempt publishes a negative result with confidence 0 and
\* a message and ends with loading false and nothing pending (while the
\* component is mounted); and, pending operations settling, loading = true
\* leads to loading = false.
C9_FailuresAreCaught ==
    /\ [][\A i \in Indices :
              (mounted /\ FailStep(i)) =>
                  /\ IsZeroNegative(result')
                  /\ loading' = FALSE
                  /\ attempts' = <<>>]_vars
    /\ ((mounted /\ loading) ~> (~loading \/ ~mounted))

\* an inference failure has been published and nothing is pending
C9_Witness ==
    /\ mounted
    /\ ~loading
    /\ attempts = <<>>
    /\ result # Null
    /\ "error" \in DOMAIN result
    /\ result.error = <<"predict failed">>

\* C10: at most one verification is pending, and while one is pending
\* loading is true, which disables both verify buttons.
C10_OneInFlight ==
    /\ Len(attempts) <= 1
    /\ (mounted /\ attempts # <<>>) =>
          /\ loading
          /\ ~CanClickVerifyImage
          /\ ~CanClickVerifyNews

\* a news lookup is pending while the image panel shows a usable button
C10_Witness ==
    /\ mounted
    /\ Len(attempts) = 1
    /\ attempts[1].kind = "news"
    /\ verificationMode = "image"
    /\ image # Null
    /\ model # Null

====
